---------------------------- MODULE Spec2Model ----------------------------
(***************************************************************************)
(* Model of the API-Testing-Agent: APITestingAgent.test_apis (the matching *)
(* engine with its single diagnosis-driven retry), the collection walker   *)
(* (_find_all_apis / _needs_file_upload) and the report reduction of       *)
(* run_workflow.                                                           *)
(*                                                                         *)
(* Python values are modelled as tagged records so that values of          *)
(* different Python types stay comparable: a string is a sequence of       *)
(* one-character strings, None / a missing key / a non-string are tags.    *)
(***************************************************************************)
EXTENDS Integers, Sequences, FiniteSets, TLC

VARIABLES
    collection,      \* the loaded Postman collection: node id -> node (id 1 is the root)
    doc_map,         \* self.doc_map in insertion order: sequence of [path, document_type]
    pc,              \* position inside test_apis
    exc,             \* the exception that left test_apis ("none" while running)
    upload_apis,     \* test_apis: upload_apis (sequence of node ids)
    idx,             \* position of the for loop over upload_apis
    results,         \* test_apis: results
    used_documents,  \* test_apis: used_documents
    random_file,     \* test_apis: random_file
    result,          \* test_apis: result
    required_type,   \* test_apis: required_type
    matching_doc,    \* test_apis: matching_doc
    retry_result,    \* test_apis: retry_result
    http,            \* what the transport / file system did in the last _test_one_api call
    trace,           \* history: the calls made so far (attempts and diagnosis calls)
    used_at_pick,    \* history: used_documents when the current endpoint was reached
    fn_in,           \* the arguments of the helper function under study
    fn_out,          \* the value it returned
    wpc,             \* position inside main / run_workflow / classify_documents
    api_key,         \* whether GOOGLE_API_KEY is set
    collection_file, \* the collection file on disk: "ok", "missing" or "unreadable"
    files,           \* the document folder: all_files as os.walk lists them
    cache_file,      \* the classification cache on disk: [state, data]
    class_results,   \* classify_documents: results, in insertion order
    new_files,       \* classify_documents: the part of new_files still to classify
    class_calls,     \* history: the paths given to the classification oracle in this run
    previous_run,    \* history: what the previous classify_documents run saw and returned
    report           \* report.json on disk: [written, apis]

vars == <<collection, doc_map, pc, exc, upload_apis, idx, results, used_documents,
          random_file, result, required_type, matching_doc, retry_result, http,
          trace, used_at_pick, fn_in, fn_out, wpc, api_key, collection_file, files,
          cache_file, class_results, new_files, class_calls, previous_run, report>>

\* the variables test_apis does not touch
fnVars == <<fn_in, fn_out>>

\* the variables of main, run_workflow and classify_documents
wfVars == <<wpc, api_key, collection_file, files, cache_file, class_results,
            new_files, class_calls, previous_run, report>>

runVars == <<doc_map, results, used_documents, random_file, result, required_type,
             matching_doc, retry_result, http, trace, used_at_pick, idx>>

-----------------------------------------------------------------------------
(* Bounds *)

\* largest number of documents in the Document Store
MaxDocs == 2

\* largest number of nodes (dict nodes and non-dict list elements) of a
\* collection built in SpecWalk
MaxNodes == 3

-----------------------------------------------------------------------------
(* Python values *)

\* None; a missing dict key; a truthy value that is no string (a number, a
\* list, a dict); a string
None == [t |-> "none", s |-> <<>>]
Missing == [t |-> "missing", s |-> <<>>]
NonStr == [t |-> "nonstr", s |-> <<>>]
Str(s) == [t |-> "str", s |-> s]

\* str.lower() on the characters the model uses
LowerChar(c) ==
    CASE c = "P" -> "p"
      [] c = "I" -> "i"
      [] c = "S" -> "s"
      [] c = "X" -> "x"
      [] OTHER -> c

Lower(s) == [i \in 1..Len(s) |-> LowerChar(s[i])]

\* Python's `a in b` on two strings
StrIn(a, b) ==
    \E k \in 0..(Len(b) - Len(a)) : SubSeq(b, k + 1, k + Len(a)) = a

\* Python truthiness of a value returned by the diagnosis
Truthy(v) ==
    CASE v.t = "none" -> FALSE
      [] v.t = "str" -> Len(v.s) > 0
      [] OTHER -> TRUE

-----------------------------------------------------------------------------
(* The Postman collection *)

\* A node is a dict [request, item].  request: key absent, a value that is
\* no dict, or a dict with a body; body: key absent, null, or a dict with a
\* mode and a formdata list of fields ("file", "text", or "nondict" for an
\* element that is no dict).  item: key absent, null, or a list of node ids
\* (id 0 stands for a list element that is no dict).
NoBody == [t |-> "absent", mode |-> "", formdata |-> <<>>]
NullBody == [t |-> "null", mode |-> "", formdata |-> <<>>]
Body(mode, fields) == [t |-> "dict", mode |-> mode, formdata |-> fields]

NoRequest == [t |-> "absent", body |-> NoBody]
BadRequest == [t |-> "nondict", body |-> NoBody]
Request(body) == [t |-> "dict", body |-> body]

NoItem == [t |-> "absent", ids |-> <<>>]
NullItem == [t |-> "null", ids |-> <<>>]
Items(ids) == [t |-> "list", ids |-> ids]

Node(request, item) == [request |-> request, item |-> item]

\* _needs_file_upload: the loop over body.get("formdata", []); "raise" when
\* field.get fails on an element that is no dict
RECURSIVE FormHasFile(_, _)
FormHasFile(fields, i) ==
    IF i > Len(fields) THEN "false"
    ELSE IF fields[i] = "nondict" THEN "raise"
    ELSE IF fields[i] = "file" THEN "true"
    ELSE FormHasFile(fields, i + 1)

\* _needs_file_upload: the body of the try block
NeedsFileUploadTry(api) ==
    IF api.request.t # "dict" THEN "raise"
    ELSE IF api.request.body.t = "null" THEN "raise"
    ELSE LET mode == IF api.request.body.t = "absent" THEN "" ELSE api.request.body.mode
         IN IF mode \in {"file", "binary"} THEN "true"
            ELSE IF mode = "formdata"
                 THEN FormHasFile(api.request.body.formdata, 1)
                 ELSE "false"

\* _needs_file_upload: the bare except turns every exception into False
NeedsFileUpload(api) == NeedsFileUploadTry(api) = "true"

\* _find_all_apis: search(node) appends to apis; the result is
\* [raised, apis], raised when iterating node["item"] fails
RECURSIVE Search(_, _, _), SearchItems(_, _, _, _), SearchItemsBackwards(_, _, _, _)
Search(c, n, acc) ==
    IF n = 0 THEN acc
    ELSE LET node == c[n]
             here == IF node.request.t # "absent"
                     THEN [acc EXCEPT !.apis = Append(acc.apis, n)]
                     ELSE acc
         IN IF node.item.t = "absent" THEN here
            ELSE IF node.item.t = "null" THEN [here EXCEPT !.raised = TRUE]
            ELSE SearchItems(c, node.item.ids, 1, here)

\* the loop over node["item"] walking the list from its end
SearchItemsBackwards(c, ids, i, acc) ==
    IF acc.raised \/ i > Len(ids) THEN acc
    ELSE SearchItemsBackwards(c, ids, i + 1, Search(c, ids[Len(ids) + 1 - i], acc))

SearchItems(c, ids, i, acc) ==
    IF acc.raised \/ i > Len(ids) THEN acc
    ELSE SearchItems(c, ids, i + 1, Search(c, ids[i], acc))

FindAllApis(c) == Search(c, 1, [raised |-> FALSE, apis |-> <<>>])

\* test_apis line 67: the list comprehension over all_apis
UploadApis(c, all_apis) == SelectSeq(all_apis, LAMBDA n : NeedsFileUpload(c[n]))

-----------------------------------------------------------------------------
(* Documents, HTTP outcomes, attempt results *)

\* the type label the classifier stored for a document: a string, null, or
\* no "document_type" key at all
DocTypes == {Missing, None, Str(<<"P", "s">>)}

\* doc_map as the sequence of its items; the path of the i-th inserted
\* document is i (0 stands for "no path")
DocMaps ==
    UNION {{[i \in 1..n |-> [path |-> i, document_type |-> f[i]]] :
                f \in [1..n -> DocTypes]} : n \in 0..MaxDocs}

Paths(dm) == {dm[i].path : i \in 1..Len(dm)}

DocInfo(dm, path) == (CHOOSE i \in 1..Len(dm) : dm[i].path = path)

\* what the file system and the transport do in one _test_one_api call
StatusCodes == {200, 201, 204, 202}
Response(status) == [kind |-> "response", status |-> status, text |-> "body"]
TransportError == [kind |-> "transport_error", status |-> 0, text |-> "timeout"]
IoError == [kind |-> "io_error", status |-> 0, text |-> "ioerror"]
Outcomes == {Response(st) : st \in StatusCodes} \cup {TransportError, IoError}

\* a result dict; has_http is FALSE for the dict of the except branch, which
\* has no method, url, document_type, status_code, response_headers keys
\* (status_code 0 then stands for the absent key)
NoResult ==
    [api_name |-> 0, file_used |-> 0, has_http |-> FALSE, document_type |-> Missing,
     success |-> FALSE, status_code |-> 0, error_message |-> "",
     retry_success |-> FALSE, correct_document |-> 0]

\* doc_info.get("document_type"): None when the key is missing
GetOrNone(label) == IF label.t = "missing" THEN None ELSE label

\* line 152 with 202 accepted as well
IsSuccessStatusLoose(status) == status \in {200, 201, 202, 204}

\* line 152: response.status_code in [200, 201, 204]
IsSuccessStatus(status) == status \in {200, 201, 204}

\* _build_request: open(file_path) fails with an I/O error or the request
\* is built
BuildRequest(api, file_path, outcome) ==
    IF outcome.kind = "io_error" THEN "raise" ELSE "built"

\* requests.request: a transport error is raised or a response is returned
SendRequest(outcome) ==
    IF outcome.kind = "transport_error" THEN "raise" ELSE "response"

\* the dict of the except branch, lines 166-172
ExceptResult(api, file_path, outcome) ==
    [api_name |-> api, file_used |-> file_path, has_http |-> FALSE,
     document_type |-> Missing,
     success |-> FALSE, status_code |-> 0, error_message |-> outcome.text,
     retry_success |-> FALSE, correct_document |-> 0]

\* the dict of lines 154-164
ResponseResult(api, file_path, doc_info, outcome) ==
    LET success == IsSuccessStatus(outcome.status)
    IN [api_name |-> api, file_used |-> file_path, has_http |-> TRUE,
        document_type |-> GetOrNone(doc_info.document_type),
        success |-> success, status_code |-> outcome.status,
        error_message |-> IF ~success THEN outcome.text ELSE "",
        retry_success |-> FALSE, correct_document |-> 0]

\* _test_one_api with the try block starting after _build_request: an I/O
\* error leaves the function
TestOneApiNarrowTry(api, file_path, doc_info, outcome) ==
    IF BuildRequest(api, file_path, outcome) = "raise"
    THEN [raised |-> TRUE, value |-> NoResult]
    ELSE IF SendRequest(outcome) = "raise"
         THEN [raised |-> FALSE, value |-> ExceptResult(api, file_path, outcome)]
         ELSE [raised |-> FALSE,
               value |-> ResponseResult(api, file_path, doc_info, outcome)]

\* _test_one_api when the file system and the transport behave as `outcome`
\* says: [raised, value], where raised says an exception left the function
\* and value is the dict returned
TestOneApi(api, file_path, doc_info, outcome) ==
    IF BuildRequest(api, file_path, outcome) = "raise"
    THEN [raised |-> FALSE, value |-> ExceptResult(api, file_path, outcome)]
    ELSE IF SendRequest(outcome) = "raise"
         THEN [raised |-> FALSE, value |-> ExceptResult(api, file_path, outcome)]
         ELSE [raised |-> FALSE,
               value |-> ResponseResult(api, file_path, doc_info, outcome)]

-----------------------------------------------------------------------------
(* The diagnosis oracle and the search for a matching document *)

\* values the oracle's JSON may carry under "required_document_type"
RequiredValues ==
    {None, Str(<<>>), Str(<<"p">>), Str(<<"p", "S", "x">>), Str(<<"x">>), NonStr}

\* what one call of the oracle does: it raises, answers text in which no
\* JSON object parses, or answers a JSON object whose
\* "required_document_type" is `value` (None also for an object without the
\* key)
DiagOutcomes ==
    {[kind |-> k, value |-> None] : k \in {"raises", "unparseable"}}
        \cup {[kind |-> "json", value |-> v] : v \in RequiredValues}

\* _ask_gemini_what_went_wrong: the value returned
AskGeminiWhatWentWrong(error_result, o) ==
    IF o.kind = "json" THEN o.value ELSE None

\* _find_document_by_type, the for loop from position i; [raised, path]
RECURSIVE FindLoop(_, _, _)
FindLoop(dm, i, doc_type_lower) ==
    IF i > Len(dm) THEN [raised |-> FALSE, path |-> 0]
    ELSE LET label == dm[i].document_type
         IN IF label.t \notin {"missing", "str"}
            THEN [raised |-> TRUE, path |-> 0]
            ELSE LET classified_type == IF label.t = "missing" THEN <<>> ELSE Lower(label.s)
                 IN IF StrIn(doc_type_lower, classified_type)
                        \/ StrIn(classified_type, doc_type_lower)
                    THEN [raised |-> FALSE, path |-> dm[i].path]
                    ELSE FindLoop(dm, i + 1, doc_type_lower)

\* _find_document_by_type: doc_type.lower() raises on a value that is no string
FindDocumentByType(dm, doc_type) ==
    IF doc_type.t # "str" THEN [raised |-> TRUE, path |-> 0]
    ELSE FindLoop(dm, 1, Lower(doc_type.s))

-----------------------------------------------------------------------------
(* The report of run_workflow *)

Unknown == Str(<<"unknown">>)

\* dict.get("document_type", "unknown")
GetOrUnknown(label) == IF label.t = "missing" THEN Unknown ELSE label

\* run_workflow, step 3: the entry built from one result (os.path.basename
\* keeps the paths of the model as they are, and the error texts of the
\* model are shorter than the 200 characters kept)
ReportEntry(r, dm) ==
    LET first ==
            IF r.success
            THEN [correctFiles |-> <<[fileName |-> r.file_used,
                                      docType |-> GetOrUnknown(r.document_type)]>>,
                  failedFiles |-> <<>>]
            ELSE [correctFiles |-> <<>>,
                  failedFiles |-> <<[nameOfFile |-> r.file_used,
                                     docType |-> GetOrUnknown(r.document_type),
                                     errorMessage |-> r.error_message]>>]
        retried ==
            IF r.retry_success /\ r.correct_document # 0
            THEN <<[fileName |-> r.correct_document,
                    docType |-> GetOrUnknown(dm[DocInfo(dm, r.correct_document)].document_type)]>>
            ELSE <<>>
    IN [apiName |-> r.api_name,
        correctFiles |-> first.correctFiles \o retried,
        failedFiles |-> first.failedFiles]

Report(rs, dm) == [i \in 1..Len(rs) |-> ReportEntry(rs[i], dm)]

-----------------------------------------------------------------------------
(* test_apis *)

FileBody == Request(Body("file", <<>>))
BinaryBody == Request(Body("binary", <<>>))
RawBody == Request(Body("raw", <<>>))
FormWithFile == Request(Body("formdata", <<"text", "file">>))

\* the collections a run is started on: two upload endpoints in nested
\* folders next to an endpoint without upload, one upload endpoint, no
\* endpoint, and a folder whose "item" is null
RunCollections ==
    { <<Node(NoRequest, Items(<<2, 5>>)), Node(NoRequest, Items(<<3, 4>>)),
        Node(FormWithFile, NoItem), Node(RawBody, NoItem), Node(FileBody, NoItem)>>,
      <<Node(NoRequest, Items(<<2>>)), Node(BinaryBody, NoItem)>>,
      <<Node(NoRequest, Items(<<>>))>>,
      <<Node(NoRequest, Items(<<2, 3>>)), Node(NoRequest, NullItem),
        Node(FileBody, NoItem)>> }

\* one call made by test_apis: an "attempt" or a "retry" (_test_one_api on
\* upload_apis[api] with `file`, which met outcome `kind`) or a "diagnose"
\* (the oracle call, which did `diag`)
NoDiag == [kind |-> "", value |-> None]
Event(ev, api, file, success, kind, diag) ==
    [ev |-> ev, api |-> api, file |-> file, success |-> success, kind |-> kind,
     diag |-> diag]

InitRun ==
    /\ pc = "load"
    /\ exc = "none"
    /\ upload_apis = <<>>
    /\ idx = 1
    /\ results = <<>>
    /\ used_documents = {}
    /\ random_file = 0
    /\ result = NoResult
    /\ required_type = None
    /\ matching_doc = 0
    /\ retry_result = NoResult
    /\ http = Response(0)
    /\ trace = <<>>
    /\ used_at_pick = {}

\* no helper call is under study
InitFn ==
    /\ fn_in = <<>>
    /\ fn_out = <<>>

\* the classification cache on disk: absent, written completely, or opened
\* for writing and not (yet) written to the end
NoCache == [state |-> "absent", data |-> <<>>]
PartialCache == [state |-> "partial", data |-> <<>>]
Cache(data) == [state |-> "complete", data |-> data]

NoRun == [ran |-> FALSE, files |-> <<>>, results |-> <<>>]
NoReport == [written |-> FALSE, apis |-> <<>>]

\* test_apis called on its own: the workflow around it is not running
InitWf ==
    /\ wpc = "testing"
    /\ api_key = TRUE
    /\ collection_file = "ok"
    /\ files = <<>>
    /\ cache_file = NoCache
    /\ class_results = <<>>
    /\ new_files = <<>>
    /\ class_calls = <<>>
    /\ previous_run = NoRun
    /\ report = NoReport

\* a collection whose upload endpoints are not listed in the order of their
\* ids: endpoint 3 carries a request and lists an endpoint without upload
\* and the upload endpoint 2
OrderCollections ==
    { <<Node(NoRequest, Items(<<3>>)), Node(FormWithFile, NoItem),
        Node(FileBody, Items(<<4, 2>>)), Node(RawBody, NoItem)>> }

\* the Document Stores with at most one document
OrderDocMaps == {dm \in DocMaps : Len(dm) <= 1}

Init ==
    /\ \/ collection \in RunCollections /\ doc_map \in DocMaps
       \/ collection \in OrderCollections /\ doc_map \in OrderDocMaps
    /\ InitRun
    /\ InitFn
    /\ InitWf

\* lines 66-73: walk the collection, keep the upload endpoints
LoadCollection ==
    /\ UNCHANGED <<fnVars, wfVars>>
    /\ pc = "load"
    /\ LET found == FindAllApis(collection)
       IN IF found.raised
          THEN /\ pc' = "raised"
               /\ exc' = "TypeError"
               /\ UNCHANGED upload_apis
          ELSE /\ pc' = "pick"
               /\ upload_apis' = UploadApis(collection, found.apis)
               /\ UNCHANGED exc
    /\ UNCHANGED <<collection, runVars>>

\* line 80 without the filter on used_documents
AvailableDocsAll(dm, used) == Paths(dm)

\* line 80: the documents not yet in used_documents
AvailableDocs(dm, used) == {p \in Paths(dm) : p \notin used}

\* line 131: the loop is over
Return ==
    /\ UNCHANGED <<fnVars, wfVars>>
    /\ pc = "pick"
    /\ idx > Len(upload_apis)
    /\ pc' = "done"
    /\ UNCHANGED <<collection, exc, upload_apis, runVars>>

\* lines 83-85: no document left, continue with the next endpoint
Skip ==
    /\ UNCHANGED <<fnVars, wfVars>>
    /\ pc = "pick"
    /\ idx <= Len(upload_apis)
    /\ AvailableDocs(doc_map, used_documents) = {}
    /\ idx' = idx + 1
    /\ used_at_pick' = used_documents
    /\ UNCHANGED <<collection, doc_map, pc, exc, upload_apis, results, used_documents,
                   random_file, result, required_type, matching_doc, retry_result,
                   http, trace>>

\* lines 87-88: random.choice among the available documents
Pick ==
    /\ UNCHANGED <<fnVars, wfVars>>
    /\ pc = "pick"
    /\ idx <= Len(upload_apis)
    /\ \E f \in AvailableDocs(doc_map, used_documents) :
           random_file' = f
    /\ pc' = "attempt"
    /\ used_at_pick' = used_documents
    /\ UNCHANGED <<collection, doc_map, exc, upload_apis, idx, results, used_documents,
                   result, required_type, matching_doc, retry_result, http, trace>>

\* lines 117-123: where the loop body goes after the retry
AfterRetryAgain(success) == IF success THEN "append" ELSE "retry"

AfterRetry(success) == "append"

\* lines 107, 126-127: a retry is looked for only when the answer is truthy
AfterDiagnoseAlways(v) == "find"

AfterDiagnose(v) == IF Truthy(v) THEN "find" ELSE "append"

\* lines 97-99, 117-119 with the document added whatever the attempt did
UsedAfterAlways(used, file, success) == used \cup {file}

\* lines 97-99, 117-119: used_documents after an attempt with `file`
UsedAfter(used, file, success) == IF success THEN used \cup {file} ELSE used

\* line 97 with the oracle asked whatever the attempt did
AfterAttemptAlways(success) == "diagnose"

\* lines 97-105: the oracle is asked when the initial attempt failed
AfterAttempt(success) == IF success THEN "append" ELSE "diagnose"

\* lines 94-102: the initial attempt
Attempt ==
    /\ UNCHANGED <<fnVars, wfVars>>
    /\ pc = "attempt"
    /\ \E o \in Outcomes :
         LET t == TestOneApi(upload_apis[idx], random_file,
                             doc_map[DocInfo(doc_map, random_file)], o)
             r == t.value
         IN /\ http' = o
            /\ trace' = Append(trace, Event("attempt", idx, random_file, r.success,
                                            o.kind, NoDiag))
            /\ IF t.raised
               THEN /\ pc' = "raised"
                    /\ exc' = "OSError"
                    /\ UNCHANGED <<result, used_documents>>
               ELSE /\ result' = r
                    /\ used_documents' = UsedAfter(used_documents, random_file, r.success)
                    /\ pc' = AfterAttempt(r.success)
                    /\ UNCHANGED exc
    /\ UNCHANGED <<collection, doc_map, upload_apis, idx, results, random_file,
                   required_type, matching_doc, retry_result, used_at_pick>>

\* lines 105-107, 126-127: ask the oracle what the endpoint needs
Diagnose ==
    /\ UNCHANGED <<fnVars, wfVars>>
    /\ pc = "diagnose"
    /\ \E o \in DiagOutcomes :
         LET v == AskGeminiWhatWentWrong(result, o)
         IN /\ required_type' = v
            /\ pc' = AfterDiagnose(v)
            /\ trace' = Append(trace, Event("diagnose", idx, 0, FALSE, "", o))
    /\ UNCHANGED <<collection, doc_map, exc, upload_apis, idx, results, used_documents,
                   random_file, result, matching_doc, retry_result, http, used_at_pick>>

\* lines 111-113, 124-125: look for a document of the required type
Find ==
    /\ UNCHANGED <<fnVars, wfVars>>
    /\ pc = "find"
    /\ LET found == FindDocumentByType(doc_map, required_type)
       IN IF found.raised
          THEN /\ pc' = "raised"
               /\ exc' = "AttributeError"
               /\ UNCHANGED matching_doc
          ELSE /\ matching_doc' = found.path
               /\ pc' = IF found.path # 0 THEN "retry" ELSE "append"
               /\ UNCHANGED exc
    /\ UNCHANGED <<collection, doc_map, upload_apis, idx, results, used_documents,
                   random_file, result, required_type, retry_result, http, trace,
                   used_at_pick>>

\* lines 115-123: the retry with the matching document
Retry ==
    /\ UNCHANGED <<fnVars, wfVars>>
    /\ pc = "retry"
    /\ \E o \in Outcomes :
         LET t == TestOneApi(upload_apis[idx], matching_doc,
                             doc_map[DocInfo(doc_map, matching_doc)], o)
             r == t.value
         IN /\ http' = o
            /\ trace' = Append(trace, Event("retry", idx, matching_doc, r.success,
                                            o.kind, NoDiag))
            /\ IF t.raised
               THEN /\ pc' = "raised"
                    /\ exc' = "OSError"
                    /\ UNCHANGED <<result, retry_result, used_documents>>
               ELSE /\ retry_result' = r
                    /\ used_documents' = UsedAfter(used_documents, matching_doc, r.success)
                    /\ result' = IF r.success
                                 THEN [result EXCEPT !.retry_success = TRUE,
                                                     !.correct_document = matching_doc]
                                 ELSE result
                    /\ pc' = AfterRetry(r.success)
                    /\ UNCHANGED exc
    /\ UNCHANGED <<collection, doc_map, upload_apis, idx, results, random_file,
                   required_type, matching_doc, used_at_pick>>

\* line 129 with the result put in front of the list
AppendedInFront(rs, r) == <<r>> \o rs

\* line 129: results.append(result)
Appended(rs, r) == Append(rs, r)

\* line 129 and the step to the next endpoint; the locals of the iteration
\* are dead from here on (each is assigned again before it is read)
AppendResult ==
    /\ UNCHANGED <<fnVars, wfVars>>
    /\ pc = "append"
    /\ results' = Appended(results, result)
    /\ idx' = idx + 1
    /\ pc' = "pick"
    /\ random_file' = 0
    /\ result' = NoResult
    /\ required_type' = None
    /\ matching_doc' = 0
    /\ retry_result' = NoResult
    /\ http' = Response(0)
    /\ UNCHANGED <<collection, doc_map, exc, upload_apis, used_documents, trace,
                   used_at_pick>>

Next ==
    \/ LoadCollection
    \/ Return
    \/ Skip
    \/ Pick
    \/ Attempt
    \/ Diagnose
    \/ Find
    \/ Retry
    \/ AppendResult

Spec == Init /\ [][Next]_vars

-----------------------------------------------------------------------------
(* The walker on arbitrary collections: the collection is grown node by    *)
(* node, then test_apis loads it.                                          *)

FormTextOnly == Request(Body("formdata", <<"text">>))
FormBadField == Request(Body("formdata", <<"nondict", "file">>))

Requests ==
    {NoRequest, BadRequest, Request(NoBody), Request(NullBody), FileBody, BinaryBody,
     RawBody, FormTextOnly, FormWithFile, FormBadField}

NodeKinds == {Node(r, it) : r \in Requests, it \in {NoItem, NullItem, Items(<<>>)}}

RECURSIVE Entries(_, _)
Entries(c, n) == IF n = 0 THEN 0 ELSE Len(c[n].item.ids) + Entries(c, n - 1)

InitWalk ==
    /\ collection \in {<<k>> : k \in NodeKinds}
    /\ doc_map = <<>>
    /\ InitRun
    /\ InitFn
    /\ InitWf

\* the collection file holds one more node, listed last under `parent`
AddNode ==
    /\ UNCHANGED <<fnVars, wfVars>>
    /\ pc = "load"
    /\ Entries(collection, Len(collection)) + 1 < MaxNodes
    /\ \E parent \in DOMAIN collection, k \in NodeKinds :
         /\ collection[parent].item.t = "list"
         /\ collection' =
              Append([collection EXCEPT ![parent].item.ids = Append(@, Len(collection) + 1)],
                     k)
    /\ UNCHANGED <<pc, exc, upload_apis, runVars>>

\* the collection file holds one more list element that is no dict
AddNonDict ==
    /\ UNCHANGED <<fnVars, wfVars>>
    /\ pc = "load"
    /\ Entries(collection, Len(collection)) + 1 < MaxNodes
    /\ \E parent \in DOMAIN collection :
         /\ collection[parent].item.t = "list"
         /\ collection' = [collection EXCEPT ![parent].item.ids = Append(@, 0)]
    /\ UNCHANGED <<pc, exc, upload_apis, runVars>>

NextWalk ==
    \/ AddNode
    \/ AddNonDict
    \/ LoadCollection

SpecWalk == InitWalk /\ [][NextWalk]_vars

-----------------------------------------------------------------------------
(* _replace_variables *)

\* longest text given to _replace_variables
MaxText == 6

TextChars == {"{", "}", "b", "/"}

Texts == UNION {[1..n -> TextChars] : n \in 0..MaxText}

\* self.env_vars: no variable, or the variable b with a plain value or with
\* a value that itself reads like a placeholder
EnvNames == {<<"b">>}
EnvValues == {<<"h">>, <<"{", "{", "b", "}", "}">>}
Envs == UNION {[K -> EnvValues] : K \in SUBSET EnvNames}

\* the number of characters from position p on that are not "}"
RECURSIVE NameRun(_, _)
NameRun(text, p) ==
    IF p > Len(text) \/ text[p] = "}" THEN 0 ELSE 1 + NameRun(text, p + 1)

\* the pattern {{([^}]+)}} tried at position p: the position of the last
\* character of the match, 0 when there is none
MatchAt(text, p) ==
    IF p + 1 <= Len(text) /\ text[p] = "{" /\ text[p + 1] = "{"
    THEN LET r == NameRun(text, p + 2)
         IN IF /\ r >= 1
               /\ p + 3 + r <= Len(text)
               /\ text[p + 2 + r] = "}"
               /\ text[p + 3 + r] = "}"
            THEN p + 3 + r
            ELSE 0
    ELSE 0

\* replacer: self.env_vars.get(var_name, match.group(0))
Replacer(text, p, last, env) ==
    LET var_name == SubSeq(text, p + 2, last - 2)
    IN IF var_name \in DOMAIN env THEN env[var_name] ELSE SubSeq(text, p, last)

\* re.sub from position p on: leftmost matches, not overlapping
RECURSIVE ReSub(_, _, _)
ReSub(text, p, env) ==
    IF p > Len(text) THEN <<>>
    ELSE LET last == MatchAt(text, p)
         IN IF last = 0
            THEN <<text[p]>> \o ReSub(text, p + 1, env)
            ELSE Replacer(text, p, last, env) \o ReSub(text, last + 1, env)

\* _replace_variables
ReplaceVariables(text, env) == ReSub(text, 1, env)

InitSubst ==
    /\ collection \in {<<Node(NoRequest, NoItem)>>}
    /\ doc_map = <<>>
    /\ InitRun
    /\ InitWf
    /\ fn_in \in {[text |-> t, env |-> e] : t \in Texts, e \in Envs}
    /\ fn_out = <<>>

\* one call of _replace_variables
CallReplaceVariables ==
    /\ pc = "load"
    /\ pc' = "returned"
    /\ fn_out' = ReplaceVariables(fn_in.text, fn_in.env)
    /\ UNCHANGED <<collection, exc, upload_apis, runVars, fn_in, wfVars>>

NextSubst == CallReplaceVariables

SpecSubst == InitSubst /\ [][NextSubst]_vars

-----------------------------------------------------------------------------
(* run_workflow: the Environment map *)

\* most entries in the "values" list of the environment description
MaxVars == 2

\* one entry: its key, its "enabled" flag as Postman exports it (absent,
\* true or false) and its value (absent or a string)
EnvEntries ==
    [key : {"a", "b"}, enabled : {"missing", "true", "false"},
     value : {"missing", "x", "y"}]

EnvDescriptions == UNION {[1..n -> EnvEntries] : n \in 0..MaxVars}

\* line 83 with a flag that is absent read as false
IsEnabledDefaultFalse(var) == var.enabled = "true"

\* line 83: var.get("enabled", True)
IsEnabled(var) == IF var.enabled = "missing" THEN TRUE ELSE var.enabled = "true"

\* line 84: var.get("value", "")
ValueOf(var) == IF var.value = "missing" THEN "" ELSE var.value

\* lines 81-84: the loop over env_data["values"] from position i
RECURSIVE BuildEnvVars(_, _, _)
BuildEnvVars(values, i, env_vars) ==
    IF i > Len(values) THEN env_vars
    ELSE LET var == values[i]
         IN IF IsEnabled(var)
            THEN BuildEnvVars(values, i + 1,
                     [k \in DOMAIN env_vars \cup {var.key} |->
                         IF k = var.key THEN ValueOf(var) ELSE env_vars[k]])
            ELSE BuildEnvVars(values, i + 1, env_vars)

InitEnv ==
    /\ collection \in {<<Node(NoRequest, NoItem)>>}
    /\ doc_map = <<>>
    /\ InitRun
    /\ InitWf
    /\ fn_in \in EnvDescriptions
    /\ fn_out = <<>>

\* lines 78-85: read the environment description, build the map
LoadEnvironment ==
    /\ pc = "load"
    /\ pc' = "returned"
    /\ fn_out' = BuildEnvVars(fn_in, 1, <<>>)
    /\ UNCHANGED <<collection, exc, upload_apis, runVars, fn_in, wfVars>>

NextEnv == LoadEnvironment

SpecEnv == InitEnv /\ [][NextEnv]_vars

-----------------------------------------------------------------------------
(* test_apis when every call returns *)

\* test_apis is one sequential loop: while a step is possible and every
\* HTTP call and oracle call comes back, the next step is taken
SpecLive == Init /\ [][Next]_vars /\ WF_vars(Next)

-----------------------------------------------------------------------------
(* DocumentClassifierAgent.classify_documents *)

\* the label stored for a document the oracle could not classify
Failed == Str(<<"failed">>)

\* what _ask_gemini_to_classify returns: None, or the dict parsed from the
\* answer - empty, or with a "document_type" (absent, null or a string) and
\* a "confidence" that is a number or something else
NoClassification == [t |-> "none", document_type |-> Missing, confidence |-> "number"]
EmptyClassification == [t |-> "empty", document_type |-> Missing, confidence |-> "number"]
Classification(label, confidence) ==
    [t |-> "dict", document_type |-> label, confidence |-> confidence]

\* what one call of the classification oracle does: the upload or the call
\* raises, the answer holds no JSON object, or it holds the object `value`
ClassifyOutcomes ==
    {[kind |-> k, value |-> NoClassification] : k \in {"raises", "unparseable"}}
        \cup {[kind |-> "json", value |-> EmptyClassification]}
        \cup {[kind |-> "json", value |-> Classification(l, c)] :
                 l \in DocTypes, c \in {"number", "string"}}

\* _ask_gemini_to_classify: every exception is turned into None
AskGeminiToClassify(file_path, o) ==
    IF o.kind = "json" THEN o.value ELSE NoClassification

\* the files on disk, in the order os.walk lists them
FileLists == {[i \in 1..n |-> i] : n \in 0..MaxDocs}

\* line 60 with the documents whose classification failed taken as new
NewFilesRetryFailed(all_files, res) ==
    SelectSeq(all_files,
              LAMBDA f : \A i \in DOMAIN res :
                             res[i].path = f => res[i].document_type = Failed)

\* line 60: new_files = [f for f in all_files if f not in results]
NewFiles(all_files, res) ==
    SelectSeq(all_files, LAMBDA f : f \notin Paths(res))

\* results[file_path] = ... on a dict kept in insertion order
SetItem(res, file_path, label) ==
    IF file_path \in Paths(res)
    THEN [i \in DOMAIN res |->
             IF res[i].path = file_path
             THEN [path |-> file_path, document_type |-> label]
             ELSE res[i]]
    ELSE Append(res, [path |-> file_path, document_type |-> label])

\* lines 40-46 with the cache file never read
LoadCacheNever(cache) == <<>>

\* lines 40-46: results is what the cache file holds, {} without the file
LoadCache(cache) == cache.data

\* lines 40-60: load the cache, list the files, keep the new ones; json.load
\* raises on a cache file that was not written to the end
ClassifyLoad ==
    /\ wpc = "classify"
    /\ IF cache_file.state = "partial"
       THEN /\ wpc' = "failed_step1"
            /\ UNCHANGED <<class_results, new_files>>
       ELSE /\ class_results' = LoadCache(cache_file)
            /\ new_files' = NewFiles(files, LoadCache(cache_file))
            /\ wpc' = "classify_loop"
    /\ UNCHANGED <<api_key, collection_file, files, cache_file, class_calls,
                   previous_run, report>>
    /\ UNCHANGED <<collection, pc, exc, upload_apis, runVars, fnVars>>

\* lines 65-79: classify the next new file; the print of line 75 raises on
\* a confidence that is no number, after the result was stored
ClassifyOne ==
    /\ wpc = "classify_loop"
    /\ new_files # <<>>
    /\ \E o \in ClassifyOutcomes :
         LET file_path == Head(new_files)
             classification == AskGeminiToClassify(file_path, o)
         IN /\ class_calls' = Append(class_calls, file_path)
            /\ IF classification.t = "dict"
               THEN /\ class_results' = SetItem(class_results, file_path,
                                                classification.document_type)
                    /\ IF classification.confidence = "number"
                       THEN /\ new_files' = Tail(new_files)
                            /\ UNCHANGED wpc
                       ELSE /\ wpc' = "failed_step1"
                            /\ UNCHANGED new_files
               ELSE /\ class_results' = SetItem(class_results, file_path, Failed)
                    /\ new_files' = Tail(new_files)
                    /\ UNCHANGED wpc
    /\ UNCHANGED <<api_key, collection_file, files, cache_file, previous_run, report>>
    /\ UNCHANGED <<collection, pc, exc, upload_apis, runVars, fnVars>>

\* line 87: open(cache_file, "w") empties the file
ClassifySaveOpen ==
    /\ wpc = "classify_loop"
    /\ new_files = <<>>
    /\ cache_file' = PartialCache
    /\ wpc' = "classify_dump"
    /\ UNCHANGED <<api_key, collection_file, files, class_results, new_files,
                   class_calls, previous_run, report>>
    /\ UNCHANGED <<collection, pc, exc, upload_apis, runVars, fnVars>>

\* lines 88-91: json.dump writes the results, the file is closed, the
\* results are returned
ClassifySaveDump ==
    /\ wpc = "classify_dump"
    /\ cache_file' = Cache(class_results)
    /\ wpc' = "classified"
    /\ UNCHANGED <<api_key, collection_file, files, class_results, new_files,
                   class_calls, previous_run, report>>
    /\ UNCHANGED <<collection, pc, exc, upload_apis, runVars, fnVars>>

\* the folders classify_documents may find when it is called again: the
\* same documents, one more, or one less
LaterFiles(all_files) ==
    {all_files}
        \cup (IF Len(all_files) < MaxDocs
              THEN {Append(all_files, Len(all_files) + 1)}
              ELSE {})
        \cup (IF Len(all_files) > 0
              THEN {SubSeq(all_files, 1, Len(all_files) - 1)}
              ELSE {})

\* classify_documents is called again, on the cache the last call wrote
RunAgain ==
    /\ wpc = "classified"
    /\ previous_run' = [ran |-> TRUE, files |-> files, results |-> class_results]
    /\ files' \in LaterFiles(files)
    /\ class_results' = <<>>
    /\ class_calls' = <<>>
    /\ wpc' = "classify"
    /\ UNCHANGED <<api_key, collection_file, cache_file, new_files, report>>
    /\ UNCHANGED <<collection, pc, exc, upload_apis, runVars, fnVars>>

InitClassify ==
    /\ collection \in {<<Node(NoRequest, NoItem)>>}
    /\ doc_map = <<>>
    /\ InitRun
    /\ InitFn
    /\ wpc = "classify"
    /\ api_key = TRUE
    /\ collection_file = "ok"
    /\ files \in FileLists
    /\ cache_file = NoCache
    /\ class_results = <<>>
    /\ new_files = <<>>
    /\ class_calls = <<>>
    /\ previous_run = NoRun
    /\ report = NoReport

NextClassify ==
    \/ ClassifyLoad
    \/ ClassifyOne
    \/ ClassifySaveOpen
    \/ ClassifySaveDump
    \/ RunAgain

SpecClassify == InitClassify /\ [][NextClassify]_vars

-----------------------------------------------------------------------------
(* main and run_workflow *)

\* the key check with the key taken as present whatever the environment says
KeyMissingNever(key) == FALSE

\* `if not api_key`
KeyMissing(key) == ~key

\* the collections a workflow is run on with any folder of documents: one
\* upload endpoint, and an upload endpoint behind a folder whose "item" is
\* null; with at most one document it is also run on the two upload
\* endpoints of OrderCollections
WorkflowCollections ==
    { <<Node(NoRequest, Items(<<2>>)), Node(BinaryBody, NoItem)>>,
      <<Node(NoRequest, Items(<<2, 3>>)), Node(NoRequest, NullItem),
        Node(FileBody, NoItem)>> }

InitWorkflow ==
    /\ \/ collection \in WorkflowCollections /\ files \in FileLists
       \/ collection \in OrderCollections /\ files \in {f \in FileLists : Len(f) <= 1}
    /\ doc_map = <<>>
    /\ pc = "idle"
    /\ exc = "none"
    /\ upload_apis = <<>>
    /\ idx = 1
    /\ results = <<>>
    /\ used_documents = {}
    /\ random_file = 0
    /\ result = NoResult
    /\ required_type = None
    /\ matching_doc = 0
    /\ retry_result = NoResult
    /\ http = Response(0)
    /\ trace = <<>>
    /\ used_at_pick = {}
    /\ InitFn
    /\ wpc \in {"main", "run_workflow"}
    /\ api_key \in BOOLEAN
    /\ collection_file \in {"ok", "missing", "unreadable"}
    /\ cache_file = NoCache
    /\ class_results = <<>>
    /\ new_files = <<>>
    /\ class_calls = <<>>
    /\ previous_run = NoRun
    /\ report = NoReport

\* run_agents.main, lines 31-51: sys.exit(1) without the key or without the
\* collection file, else run_workflow is called
Main ==
    /\ wpc = "main"
    /\ wpc' = IF KeyMissing(api_key) \/ collection_file = "missing"
              THEN "exit"
              ELSE "run_workflow"
    /\ UNCHANGED <<api_key, collection_file, files, cache_file, class_results,
                   new_files, class_calls, previous_run, report>>
    /\ UNCHANGED <<collection, pc, exc, upload_apis, runVars, fnVars>>

\* run_workflow, lines 36-57: return without the key, else step 1 starts
RunWorkflow ==
    /\ wpc = "run_workflow"
    /\ wpc' = IF KeyMissing(api_key) THEN "failed_key" ELSE "classify"
    /\ UNCHANGED <<api_key, collection_file, files, cache_file, class_results,
                   new_files, class_calls, previous_run, report>>
    /\ UNCHANGED <<collection, pc, exc, upload_apis, runVars, fnVars>>

\* run_workflow, lines 70-88, and test_apis, lines 61-63: the documents are
\* handed over and the collection file is opened and parsed; an exception
\* there ends step 2
StartTesting ==
    /\ wpc = "classified"
    /\ doc_map' = class_results
    /\ IF collection_file = "ok"
       THEN /\ pc' = "load"
            /\ wpc' = "testing"
       ELSE /\ wpc' = "failed_step2"
            /\ UNCHANGED pc
    /\ UNCHANGED <<api_key, collection_file, files, cache_file, class_results,
                   new_files, class_calls, previous_run, report>>
    /\ UNCHANGED <<collection, exc, upload_apis, idx, results, used_documents,
                   random_file, result, required_type, matching_doc, retry_result,
                   http, trace, used_at_pick, fnVars>>

\* run_workflow, lines 92-94: an exception of test_apis ends step 2
StepTwoFailed ==
    /\ wpc = "testing"
    /\ pc = "raised"
    /\ wpc' = "failed_step2"
    /\ UNCHANGED <<api_key, collection_file, files, cache_file, class_results,
                   new_files, class_calls, previous_run, report>>
    /\ UNCHANGED <<collection, pc, exc, upload_apis, runVars, fnVars>>

\* run_workflow, lines 102-141: the report is built and written
WriteReport ==
    /\ wpc = "testing"
    /\ pc = "done"
    /\ report' = [written |-> TRUE, apis |-> Report(results, doc_map)]
    /\ wpc' = "finished"
    /\ UNCHANGED <<api_key, collection_file, files, cache_file, class_results,
                   new_files, class_calls, previous_run>>
    /\ UNCHANGED <<collection, pc, exc, upload_apis, runVars, fnVars>>

\* where main, run_workflow or one of the agents is still running
Running ==
    {"main", "run_workflow", "classify", "classify_loop", "classify_dump",
     "classified", "testing"}

\* KeyboardInterrupt: no `except Exception` catches it, main returns 130 (or
\* the interpreter ends); the variables keep what the frames held
Interrupt ==
    /\ wpc \in Running
    /\ wpc' = "interrupted"
    /\ IF pc \in {"idle", "done", "raised"}
       THEN UNCHANGED <<pc, exc>>
       ELSE /\ pc' = "raised"
            /\ exc' = "KeyboardInterrupt"
    /\ UNCHANGED <<api_key, collection_file, files, cache_file, class_results,
                   new_files, class_calls, previous_run, report>>
    /\ UNCHANGED <<collection, upload_apis, runVars, fnVars>>

NextWorkflow ==
    \/ Main
    \/ RunWorkflow
    \/ ClassifyLoad
    \/ ClassifyOne
    \/ ClassifySaveOpen
    \/ ClassifySaveDump
    \/ StartTesting
    \/ LoadCollection
    \/ Return
    \/ Skip
    \/ Pick
    \/ Attempt
    \/ Diagnose
    \/ Find
    \/ Retry
    \/ AppendResult
    \/ StepTwoFailed
    \/ WriteReport
    \/ Interrupt

SpecWorkflow == InitWorkflow /\ [][NextWorkflow]_vars

-----------------------------------------------------------------------------
(* _ask_gemini_what_went_wrong: the answer's JSON *)

\* longest oracle answer
MaxResp == 6

\* the pieces an answer is made of: braces, "t" for the member
\* "required_document_type": "p", "k" for a key with its colon (a value has
\* to follow), "x" for any other text
RespChars == {"{", "}", "t", "k", "x"}

Responses == UNION {[1..n -> RespChars] : n \in 0..MaxResp}

\* the type named by the member "t"
NamedType == Str(<<"p">>)

\* json.loads on an object: s is {} or {t} or {k followed by an object}
RECURSIVE IsJsonObject(_)
IsJsonObject(s) ==
    /\ Len(s) >= 2
    /\ s[1] = "{"
    /\ s[Len(s)] = "}"
    /\ \/ Len(s) = 2
       \/ Len(s) = 3 /\ s[2] = "t"
       \/ Len(s) >= 5 /\ s[2] = "k" /\ IsJsonObject(SubSeq(s, 3, Len(s) - 1))

\* result.get("required_document_type") on the parsed object
GetRequiredType(s) == IF Len(s) = 3 THEN NamedType ELSE None

BracePositions(text, c) == {i \in DOMAIN text : text[i] = c}

MinPos(S) == CHOOSE x \in S : \A y \in S : x <= y
MaxPos(S) == CHOOSE x \in S : \A y \in S : x >= y

\* re.search(r"{[\s\S]*}", text): from the first "{" to the last "}" after
\* it; <<>> when there is no match
ReSearch(text) ==
    LET opens == BracePositions(text, "{")
    IN IF opens = {} THEN <<>>
       ELSE LET first == MinPos(opens)
                closes == {i \in BracePositions(text, "}") : i > first}
            IN IF closes = {} THEN <<>>
               ELSE SubSeq(text, first, MaxPos(closes))

\* lines 321-330: the value returned for the answer `text`; the exception of
\* json.loads is caught and turned into None
ExtractDiagnosis(text) ==
    LET json_match == ReSearch(text)
    IN IF json_match = <<>> THEN None
       ELSE IF IsJsonObject(json_match) THEN GetRequiredType(json_match)
            ELSE None

InitExtract ==
    /\ collection \in {<<Node(NoRequest, NoItem)>>}
    /\ doc_map = <<>>
    /\ InitRun
    /\ InitWf
    /\ fn_in \in Responses
    /\ fn_out = <<>>

\* one answer of the oracle is read
CallExtractDiagnosis ==
    /\ pc = "load"
    /\ pc' = "returned"
    /\ fn_out' = ExtractDiagnosis(fn_in)
    /\ UNCHANGED <<collection, exc, upload_apis, runVars, fn_in, wfVars>>

NextExtract == CallExtractDiagnosis

SpecExtract == InitExtract /\ [][NextExtract]_vars

-----------------------------------------------------------------------------
(* Properties *)

\* the _test_one_api calls made for the endpoint at position k of upload_apis
Calls(k) ==
    {i \in DOMAIN trace : trace[i].api = k /\ trace[i].ev \in {"attempt", "retry"}}

\* those of them that sent an HTTP request (the file was read)
Dispatches(k) == {i \in Calls(k) : trace[i].kind # "io_error"}

Retries(k) == {i \in Calls(k) : trace[i].ev = "retry"}

DiagnoseCalls(k) ==
    {i \in DOMAIN trace : trace[i].api = k /\ trace[i].ev = "diagnose"}

Successes ==
    {i \in DOMAIN trace : trace[i].ev \in {"attempt", "retry"} /\ trace[i].success}

\* C1: no double-use - no document is the document of two successful
\* attempts (initial or retry) of one run.
C1_NoDoubleUse ==
    \A i, j \in Successes : i # j => trace[i].file # trace[j].file

\* C2: retry bound - for every endpoint at most two HTTP requests are sent,
\* at most one of them a retry, and nothing is attempted for the endpoint
\* after its retry.
C2_RetryBound ==
    \A k \in 1..Len(upload_apis) :
        /\ Cardinality(Dispatches(k)) <= 2
        /\ Cardinality(Calls(k)) <= 2
        /\ Cardinality(Retries(k)) <= 1
        /\ \A i \in Retries(k) : \A j \in Calls(k) \cup DiagnoseCalls(k) : j <= i

C2_Witness ==
    /\ pc = "done"
    /\ \E k \in 1..Len(upload_apis) :
         /\ Cardinality(Dispatches(k)) = 2
         /\ \E i \in Retries(k) : ~trace[i].success

\* C3: the document selected for a retry is not in the Usage Set at the
\* moment it is selected.
C3_RetryDocNotUsed ==
    pc = "retry" => matching_doc \notin used_documents

\* the text of a type label as the comparison reads it (a missing label
\* reads as the empty string)
LabelText(label) == IF label.t = "str" THEN Lower(label.s) ELSE <<>>

\* positions of the documents whose label matches the required type by
\* case-insensitive substring in either direction
MatchingPositions(dm, required) ==
    {i \in DOMAIN dm :
        /\ dm[i].document_type.t \in {"str", "missing"}
        /\ \/ StrIn(Lower(required.s), LabelText(dm[i].document_type))
           \/ StrIn(LabelText(dm[i].document_type), Lower(required.s))}

Min(S) == CHOOSE x \in S : \A y \in S : x <= y

\* C4: when the initial attempt failed, the oracle returned a required type
\* and some document's label matches it, exactly one retry is made, with the
\* first matching document in insertion order; if it succeeds its path is in
\* the Usage Set and the initially tried document's path is not.
C4_RetryWithFirstMatch ==
    (/\ pc \in {"append", "raised"}
     /\ result # NoResult
     /\ ~result.success
     /\ required_type.t = "str"
     /\ Len(required_type.s) > 0
     /\ MatchingPositions(doc_map, required_type) # {})
    => LET first == doc_map[Min(MatchingPositions(doc_map, required_type))].path
       IN /\ pc = "append"
          /\ Cardinality(Retries(idx)) = 1
          /\ \A i \in Retries(idx) :
               /\ trace[i].file = first
               /\ trace[i].success =>
                    first \in used_documents /\ random_file \notin used_documents

\* the oracle gave no required type: it raised, its text did not parse, or
\* the JSON object carried null / no key
NullDiagnosis(e) == e.ev = "diagnose" /\ (e.diag.kind # "json" \/ e.diag.value = None)

\* C5: after a failed initial attempt whose diagnosis returns no required
\* type there is no retry: one attempt for the endpoint, a failure, the
\* Usage Set as it was when the endpoint was reached, and a report entry
\* without a succeeded document.
C5_NullDiagnosisNoRetry ==
    (Len(trace) > 0 /\ NullDiagnosis(trace[Len(trace)]))
    => LET k == trace[Len(trace)].api
           r == IF k = idx THEN result ELSE results[Len(results)]
       IN /\ k = idx => pc = "append"
          /\ k # idx => k = idx - 1 /\ pc # "raised" /\ Len(results) > 0
          /\ Cardinality(Calls(k)) = 1
          /\ \A i \in Calls(k) : ~trace[i].success /\ trace[i].ev = "attempt"
          /\ used_documents = used_at_pick
          /\ r.api_name = upload_apis[k]
          /\ ~r.success
          /\ ReportEntry(r, doc_map).correctFiles = <<>>
          /\ Len(ReportEntry(r, doc_map).failedFiles) = 1

C5_Witness ==
    /\ pc = "done"
    /\ Len(trace) > 1
    /\ NullDiagnosis(trace[Len(trace)])
    /\ trace[Len(trace)].diag.kind = "json"
    /\ Len(results) = Len(upload_apis)

\* C6: an endpoint reached when every document path is in the Usage Set is
\* skipped: no attempt, no diagnosis call, no result, Usage Set and results
\* unchanged, and the loop is at the next endpoint without an exception.
C6_SkipWhenExhausted ==
    [][(/\ pc = "pick"
        /\ idx <= Len(upload_apis)
        /\ Paths(doc_map) \subseteq used_documents)
       => (/\ pc' = "pick"
           /\ idx' = idx + 1
           /\ exc' = "none"
           /\ trace' = trace
           /\ results' = results
           /\ used_documents' = used_documents)]_vars

C6_Witness ==
    /\ pc = "done"
    /\ Paths(doc_map) # {}
    /\ Paths(doc_map) \subseteq used_documents
    /\ \E k \in 1..Len(upload_apis) : Calls(k) = {} /\ DiagnoseCalls(k) = {}

\* the dict returned by the latest _test_one_api call of the iteration
LatestResult == IF retry_result # NoResult THEN retry_result ELSE result

\* C7: an attempt is a success iff the HTTP call completed with status 200,
\* 201 or 204; any other status and any exception give success = false with
\* the response body, respectively the exception text, as error detail.
C7_SuccessIffStatus ==
    (http # Response(0) /\ pc # "raised")
    => /\ LatestResult.success <=>
            (http.kind = "response" /\ http.status \in {200, 201, 204})
       /\ ~LatestResult.success => LatestResult.error_message = http.text

C7_Witness ==
    /\ pc = "diagnose"
    /\ http = Response(202)
    /\ ~result.success
    /\ result.error_message = "body"

C9_OracleFailureNeverRaises ==
    Len(trace) > 0 => pc # "raised"

\* the nodes the walker is meant to reach: the root and, transitively, the
\* dict elements of well-formed "item" lists
Children(c, n) ==
    IF c[n].item.t = "list"
    THEN {c[n].item.ids[i] : i \in DOMAIN c[n].item.ids} \ {0}
    ELSE {}

RECURSIVE Closure(_, _, _)
Closure(c, S, k) ==
    IF k = 0 THEN S
    ELSE Closure(c, S \cup UNION {Children(c, n) : n \in S}, k - 1)

Reachable(c) == Closure(c, {1}, Len(c))

\* a request whose body is a raw file/binary body or a form with a file field
HasUploadBody(node) ==
    /\ node.request.t = "dict"
    /\ node.request.body.t = "dict"
    /\ \/ node.request.body.mode \in {"file", "binary"}
       \/ /\ node.request.body.mode = "formdata"
          /\ \E i \in DOMAIN node.request.body.formdata :
                node.request.body.formdata[i] = "file"

\* C10: filter correctness - the endpoints test_apis processes are exactly
\* the request-bearing nodes with an upload body, and a malformed node is
\* skipped rather than raising.
C10_FilterCorrect ==
    pc # "load"
    => /\ pc # "raised"
       /\ {upload_apis[i] : i \in DOMAIN upload_apis}
            = {n \in Reachable(collection) : HasUploadBody(collection[n])}

\* the nodes of the subtree rooted at node n
Subtree(c, n) == Closure(c, {n}, Len(c))

\* node a comes before node b in a depth-first pre-order walk that takes
\* children in their listed order: a is an ancestor of b, or some "item" list
\* holds the subtree of a before the subtree of b
Before(c, a, b) ==
    /\ a # b
    /\ \/ b \in Subtree(c, a)
       \/ \E n \in DOMAIN c :
            /\ c[n].item.t = "list"
            /\ \E i, j \in DOMAIN c[n].item.ids :
                 /\ i < j
                 /\ c[n].item.ids[i] # 0
                 /\ c[n].item.ids[j] # 0
                 /\ a \in Subtree(c, c[n].item.ids[i])
                 /\ b \in Subtree(c, c[n].item.ids[j])

\* the position in upload_apis of the endpoint with node id n
PositionOf(n) == CHOOSE i \in DOMAIN upload_apis : upload_apis[i] = n

\* the endpoint list as test_apis holds it when the loop starts
C11_WalkOrder ==
    (pc = "pick" /\ idx = 1)
    => \A i, j \in DOMAIN upload_apis :
          i < j => Before(collection, upload_apis[i], upload_apis[j])

\* the initial attempts and the recorded results follow the endpoint list
C11_DispatchOrder ==
    (pc # "load" /\ exc # "TypeError")
    => /\ \A p, q \in DOMAIN trace :
            (p < q /\ trace[p].ev = "attempt" /\ trace[q].ev = "attempt")
            => trace[p].api < trace[q].api
       /\ \A a, b \in DOMAIN results :
            a < b => PositionOf(results[a].api_name) < PositionOf(results[b].api_name)
       /\ \A a \in DOMAIN results :
            result # NoResult
            => PositionOf(results[a].api_name) < PositionOf(result.api_name)

\* C11: the walker returns the endpoints in depth-first pre-order with
\* children in listed order, the list and the collection stay as loaded, and
\* test_apis makes the initial attempts (and records their results) in the
\* order of the list.
C11_PreOrderDispatch ==
    /\ [](C11_WalkOrder /\ C11_DispatchOrder)
    /\ [][pc # "load" => (upload_apis' = upload_apis /\ collection' = collection)]_vars

C11_Witness ==
    /\ pc = "done"
    /\ Len(results) = 2
    /\ \E i, j \in DOMAIN upload_apis : i < j /\ upload_apis[i] > upload_apis[j]
    /\ \E n \in DOMAIN collection :
         collection[n].request.t = "dict" /\ collection[n].item.t = "list"
            /\ Len(collection[n].item.ids) > 0

\* "{{" name "}}" stands at position p of the text
PlaceholderAt(text, p, name) ==
    /\ p + Len(name) + 3 <= Len(text)
    /\ SubSeq(text, p, p + Len(name) + 3) = <<"{", "{">> \o name \o <<"}", "}">>

\* the text with every placeholder of an Environment variable replaced by
\* the variable's value and every other character kept
RECURSIVE ReplaceEvery(_, _, _)
ReplaceEvery(text, p, env) ==
    IF p > Len(text) THEN <<>>
    ELSE IF \E name \in DOMAIN env : PlaceholderAt(text, p, name)
         THEN LET name == CHOOSE n \in DOMAIN env : PlaceholderAt(text, p, n)
              IN env[name] \o ReplaceEvery(text, p + Len(name) + 4, env)
         ELSE <<text[p]>> \o ReplaceEvery(text, p + 1, env)

\* C12: _replace_variables replaces every {{name}} whose name is a key of the
\* Environment by the key's value verbatim and leaves everything else,
\* unknown placeholders included, as it is.
C12_ReplacesEveryVariable ==
    pc = "returned" => fn_out = ReplaceEvery(fn_in.text, 1, fn_in.env)

\* the position in upload_apis of the endpoint a result is about
EndpointOf(r) == CHOOSE k \in DOMAIN upload_apis : upload_apis[k] = r.api_name

\* the documents of the attempts (initial and retry) made for endpoint k
\* that ended as `success` says
AttemptFiles(k, success) ==
    {trace[j].file : j \in {c \in Calls(k) : trace[c].success = success}}

\* C16: the report has one entry per endpoint of the results; its succeeded
\* list holds exactly the documents of the endpoint's successful attempts
\* (initial and retry) and its failed list exactly the documents of the
\* endpoint's failed attempts (initial and retry).
C16_ReportListsAttempts ==
    pc = "done" =>
        LET written == Report(results, doc_map)
        IN /\ Len(written) = Len(results)
           /\ \A i \in DOMAIN written :
                LET k == EndpointOf(results[i])
                    correct == written[i].correctFiles
                    failed == written[i].failedFiles
                IN /\ written[i].apiName = upload_apis[k]
                   /\ {correct[n].fileName : n \in DOMAIN correct} = AttemptFiles(k, TRUE)
                   /\ {failed[n].nameOfFile : n \in DOMAIN failed} = AttemptFiles(k, FALSE)

\* what a recorded result says about a retry: the retry's document and how
\* it ended, or nothing
RecordedRetry(r) ==
    IF r.correct_document # 0
    THEN {[file |-> r.correct_document, success |-> r.retry_success]}
    ELSE {}

\* C18: once an endpoint's result is recorded, every retry dispatched for
\* the endpoint is recorded with it, with its document and its outcome,
\* also when the retry failed.
C18_RetryRecorded ==
    \A i \in DOMAIN results :
        \A j \in Retries(EndpointOf(results[i])) :
            [file |-> trace[j].file, success |-> trace[j].success]
                \in RecordedRetry(results[i])

\* the documents of the successful attempts made so far
SuccessFiles == {trace[i].file : i \in Successes}

\* C19: the Usage Set holds exactly the documents of the successful attempts
\* of the run, so a document whose attempt failed is not added and is still
\* a candidate when the next endpoint picks.
C19_UsageSetOnlySuccesses ==
    /\ used_documents = SuccessFiles
    /\ \A i \in DOMAIN trace :
         (trace[i].ev \in {"attempt", "retry"} /\ trace[i].file \notin SuccessFiles)
             => (pc = "pick" => trace[i].file \in AvailableDocs(doc_map, used_documents))

C19_Witness ==
    /\ pc = "attempt"
    /\ idx = 2
    /\ \E i, j \in Calls(1) :
         /\ trace[i].ev = "attempt" /\ ~trace[i].success
         /\ trace[j].ev = "retry" /\ ~trace[j].success
    /\ random_file \in AttemptFiles(1, FALSE)

\* C20: per endpoint the calls follow Pending -> Attempted -> {Succeeded |
\* Failed | Diagnosing -> {Failed | Retrying -> {Succeeded | Failed}}}: the
\* initial attempt is the endpoint's first call, the oracle is asked only
\* directly after a failed initial attempt of the same endpoint and at most
\* once per endpoint, and a retry is made only directly after a diagnosis of
\* the same endpoint that returned a type.
C20_EndpointStateMachine ==
    /\ \A k \in 1..Len(upload_apis) : Cardinality(DiagnoseCalls(k)) <= 1
    /\ \A i \in DOMAIN trace :
         /\ trace[i].ev = "attempt" =>
                \A j \in 1..(i - 1) : trace[j].api < trace[i].api
         /\ trace[i].ev = "diagnose" =>
                /\ i > 1
                /\ trace[i - 1].ev = "attempt"
                /\ trace[i - 1].api = trace[i].api
                /\ ~trace[i - 1].success
         /\ trace[i].ev = "retry" =>
                /\ i > 1
                /\ trace[i - 1].ev = "diagnose"
                /\ trace[i - 1].api = trace[i].api
                /\ trace[i - 1].diag.kind = "json"
                /\ Truthy(trace[i - 1].diag.value)
    /\ pc = "diagnose" => (result # NoResult /\ ~result.success)
    /\ pc \in {"find", "retry"} => Truthy(required_type)

C20_Witness ==
    /\ pc = "done"
    /\ \E k \in 1..Len(upload_apis) :
         /\ Retries(k) # {}
         /\ DiagnoseCalls(k) # {}
    /\ \E k \in 1..Len(upload_apis) :
         /\ Calls(k) # {}
         /\ DiagnoseCalls(k) = {}

\* the entries of the description fn_in that are not disabled
NotDisabled == {i \in DOMAIN fn_in : fn_in[i].enabled # "false"}

\* C17: the Environment map has a key exactly when the description has an
\* entry with that key that is not disabled, with the value of such an
\* entry: entries with enabled = false are left out, entries without the
\* flag are taken as enabled.
C17_EnvironmentMap ==
    pc = "returned" =>
        /\ DOMAIN fn_out = {fn_in[i].key : i \in NotDisabled}
        /\ \A k \in DOMAIN fn_out :
             \E i \in NotDisabled :
                 /\ fn_in[i].key = k
                 /\ fn_out[k] = IF fn_in[i].value = "missing" THEN "" ELSE fn_in[i].value

C17_Witness ==
    /\ pc = "returned"
    /\ Len(fn_in) = 2
    /\ fn_in[1].enabled = "false"
    /\ fn_in[2].enabled = "missing"
    /\ fn_in[1].key # fn_in[2].key
    /\ DOMAIN fn_out = {fn_in[2].key}

\* C13: a run of classify_documents that starts from the cache written by
\* the previous run gives no path of that cache to the oracle, also none
\* whose classification failed; when the files are the same as in the
\* previous run it makes no oracle call at all and returns, and saves, the
\* Document Store the previous run returned.
C13_WarmCacheIdempotent ==
    previous_run.ran =>
        /\ \A i \in DOMAIN class_calls :
               class_calls[i] \notin Paths(previous_run.results)
        /\ (wpc = "classified" /\ files = previous_run.files) =>
               /\ class_calls = <<>>
               /\ class_results = previous_run.results
               /\ cache_file = Cache(previous_run.results)

C13_Witness ==
    /\ wpc = "classified"
    /\ previous_run.ran
    /\ files = previous_run.files
    /\ Len(files) = 2
    /\ class_results[1].document_type = Failed
    /\ class_results[2].document_type # Failed

\* a fatal pre-flight condition holds: the API key is missing or the
\* collection file cannot be read
FatalPreflight == ~api_key \/ collection_file # "ok"

\* nothing of the matching engine has happened: no endpoint was listed, no
\* HTTP request or diagnosis call was made, no result and no report written
NoEndpointProcessed ==
    /\ trace = <<>>
    /\ upload_apis = <<>>
    /\ results = <<>>
    /\ pc = "idle"
    /\ ~report.written

\* C14: with a missing API key or an unreadable collection file the run is
\* aborted before any endpoint is processed - no HTTP dispatch, no diagnosis
\* call, no report - and ends as a failure; without the key nothing is
\* classified and the cache is not touched, and the abort at the collection
\* file leaves the cache as the classification stage wrote it.
C14_FatalPreflightAborts ==
    /\ [](FatalPreflight =>
             /\ NoEndpointProcessed
             /\ wpc \notin {"testing", "finished"})
    /\ [](~api_key => (class_calls = <<>> /\ cache_file = NoCache))
    /\ [](wpc = "failed_step2" /\ collection_file # "ok"
             => cache_file = Cache(class_results))
    /\ [][wpc' \in {"exit", "failed_key", "failed_step2"}
             => cache_file' = cache_file]_vars

C14_Witness ==
    /\ wpc = "failed_step2"
    /\ collection_file = "unreadable"
    /\ Len(class_calls) = 2
    /\ cache_file = Cache(class_results)
    /\ doc_map = class_results
    /\ NoEndpointProcessed

\* C15: after an interrupt the classification cache on disk is not left
\* partially written, and the results recorded before the interrupt are
\* not lost: they are in the report on disk.
C15_InterruptKeepsState ==
    wpc = "interrupted" =>
        /\ cache_file.state # "partial"
        /\ results # <<>> =>
               /\ report.written
               /\ Len(report.apis) = Len(results)

\* C21: the document selected for the retry of an endpoint is not the
\* document whose initial attempt has just failed on that endpoint.
C21_RetryUsesNewDocument ==
    /\ pc = "retry" => matching_doc # random_file
    /\ \A i \in DOMAIN trace :
         (trace[i].ev = "retry") =>
             \A j \in Calls(trace[i].api) :
                 trace[j].ev = "attempt" => trace[j].file # trace[i].file

\* the record stored for a path in a Document Store
RecordOf(store, path) == store[DocInfo(store, path)]

\* C22: a classification run never changes or removes the record of a path
\* that is in the cache it loaded, whatever files it finds and whatever the
\* oracle answers: the records of the loaded cache are in the results at
\* every step of the run and in the cache the run writes, and a step of the
\* loop changes no record that is already in the results.
C22_RecordsImmutable ==
    /\ [](previous_run.ran /\ wpc \in {"classify_loop", "classify_dump", "classified"}
             => \A p \in Paths(previous_run.results) :
                    /\ p \in Paths(class_results)
                    /\ RecordOf(class_results, p) = RecordOf(previous_run.results, p))
    /\ [](previous_run.ran /\ wpc = "classified"
             => \A p \in Paths(previous_run.results) :
                    /\ p \in Paths(cache_file.data)
                    /\ RecordOf(cache_file.data, p) = RecordOf(previous_run.results, p))
    /\ [][wpc = "classify_loop"
             => \A p \in Paths(class_results) :
                    /\ p \in Paths(class_results')
                    /\ RecordOf(class_results', p) = RecordOf(class_results, p)]_vars

C22_Witness ==
    /\ wpc = "classified"
    /\ previous_run.ran
    /\ previous_run.files = <<1>>
    /\ previous_run.results = <<[path |-> 1, document_type |-> Failed]>>
    /\ files = <<1, 2>>
    /\ class_calls = <<2>>
    /\ Len(cache_file.data) = 2
    /\ cache_file.data[1].document_type = Failed

\* the well-formed JSON objects inside a text, as <<start, end>>
ObjectsIn(text) ==
    {se \in (DOMAIN text) \X (DOMAIN text) :
        se[1] < se[2] /\ IsJsonObject(SubSeq(text, se[1], se[2]))}

\* the first of them: the one that starts first (two objects that start at
\* the same place are the same object)
FirstObject(text) ==
    LET se == CHOOSE o \in ObjectsIn(text) :
                  \A q \in ObjectsIn(text) : o[1] <= q[1]
    IN SubSeq(text, se[1], se[2])

\* C23: the value taken from an oracle answer is the required_document_type
\* of the first well-formed JSON object in the text, whatever text, braces
\* or objects follow it, and "no diagnosis" only when no object in the text
\* parses.
C23_FirstObjectExtracted ==
    pc = "returned" =>
        fn_out = IF ObjectsIn(fn_in) = {} THEN None
                 ELSE GetRequiredType(FirstObject(fn_in))

\* the endpoints the loop has passed that were given a document, i.e. were
\* not skipped
NotSkipped == {k \in 1..(idx - 1) : Calls(k) # {}}

\* C24: the results hold at most one entry per endpoint, in the order the
\* endpoints were processed; between two endpoints and at the return the
\* entries are exactly the endpoints passed that were not skipped, and an
\* endpoint was skipped only with an empty candidate pool; an entry once
\* appended stays where it is.
C24_ResultsList ==
    /\ [](\A a, b \in DOMAIN results :
              a < b => EndpointOf(results[a]) < EndpointOf(results[b]))
    /\ [](pc \in {"pick", "done"} =>
              /\ {EndpointOf(results[a]) : a \in DOMAIN results} = NotSkipped
              /\ \A k \in 1..(idx - 1) :
                     k \notin NotSkipped => Paths(doc_map) \subseteq used_documents)
    /\ [][/\ Len(results') >= Len(results)
          /\ SubSeq(results', 1, Len(results)) = results]_vars

C24_Witness ==
    /\ pc = "done"
    /\ Len(upload_apis) = 2
    /\ Len(results) = 1
    /\ results[1].api_name = upload_apis[1]
    /\ Cardinality(Calls(1)) = 2
    /\ Calls(2) = {}

\* the successful attempts made for endpoint k
SuccessesOf(k) == {i \in Calls(k) : trace[i].success}

\* the endpoints the loop has reached so far
Visited == IF idx <= Len(upload_apis) THEN idx ELSE Len(upload_apis)

\* C25: when every HTTP call and every diagnosis call returns or raises,
\* test_apis comes to its return having visited every upload endpoint once,
\* one after the other; the Usage Set only grows, by at most one path per
\* endpoint, and is never larger than the number of endpoints visited or
\* the number of documents.
C25_TerminatesWithinBounds ==
    /\ <>(pc = "done" /\ idx = Len(upload_apis) + 1)
    /\ [][idx' = idx \/ idx' = idx + 1]_vars
    /\ [][used_documents \subseteq used_documents']_vars
    /\ [](/\ \A k \in 1..Len(upload_apis) : Cardinality(SuccessesOf(k)) <= 1
          /\ Cardinality(used_documents) <= Visited
          /\ Cardinality(used_documents) <= Len(doc_map))

=============================================================================
